---- MODULE Spec2Model ----
(***************************************************************************)
(* A model of filters.py: the query-parameter filters built on peewee.     *)
(*                                                                         *)
(* Python strings that the code takes apart (parameter keys, the ordering  *)
(* parameter, field names, operator tokens) are sequences of one-character *)
(* strings, so that the regular expression of split_operator, str.split,   *)
(* str.strip and str.startswith are computed character by character.       *)
(* Parameter values are only compared as a whole and stay TLA+ strings.    *)
(***************************************************************************)
EXTENDS Naturals, Sequences, FiniteSets

VARIABLES
    query,   \* self.query: [columns, where, order]
    err,     \* the exception the last call raised, "none" when it returned
    last,    \* the last call: [op, params, ordering, pre, log]
    prev,    \* the call before it (same shape)
    calls,   \* number of calls made so far
    arg,     \* the argument of a pure-function call
    ret      \* the value the pure-function call returned

vars == <<query, err, last, prev, calls, arg, ret>>

(***************************************************************************)
(* Bounds.                                                                 *)
(***************************************************************************)
MaxCalls == 2

(***************************************************************************)
(* Strings as character sequences.                                         *)
(***************************************************************************)
s_id == <<"i", "d">>
s_name == <<"n", "a", "m", "e">>
s_active == <<"a", "c", "t", "i", "v", "e">>
s_ts == <<"t", "s">>
s_note == <<"n", "o", "t", "e">>
s_age == <<"a", "g", "e">>
s_unknown_field == <<"u", "n", "k", "n", "o", "w", "n", "_", "f", "i", "e", "l", "d">>
s_bogus_field == <<"b", "o", "g", "u", "s", "_", "f", "i", "e", "l", "d">>

t_eq == <<"=", "=">>
t_ne == <<"!", "=">>
t_ge == <<">", "=">>
t_le == <<"<", "=">>
t_gt == <<">">>
t_lt == <<"<">>
t_LIKE == <<"L", "I", "K", "E">>
t_ILIKE == <<"I", "L", "I", "K", "E">>
t_is_null == <<"i", "s", "_", "n", "u", "l", "l">>
t_BETWEEN == <<"B", "E", "T", "W", "E", "E", "N">>

\* str.startswith(tok) at offset p (0-based)
StartsWithAt(str, tok, p) ==
    /\ p + Len(tok) <= Len(str)
    /\ SubSeq(str, p + 1, p + Len(tok)) = tok

startswith(str, tok) == StartsWithAt(str, tok, 0)

\* the set of the elements of a sequence
Range(seq) == {seq[i] : i \in DOMAIN seq}

reversed(seq) == [i \in 1..Len(seq) |-> seq[Len(seq) + 1 - i]]

SetMax(S) == CHOOSE x \in S : \A y \in S : y <= x
SetMin(S) == CHOOSE x \in S : \A y \in S : x <= y

(***************************************************************************)
(* Values handed to predicates: a raw string, a boolean, or a parsed       *)
(* timestamp.                                                              *)
(***************************************************************************)
StrValue(v) == [kind |-> "str", text |-> v, bool |-> FALSE]
BoolValue(b) == [kind |-> "bool", text |-> "", bool |-> b]
DateTimeValue(v) == [kind |-> "datetime", text |-> v, bool |-> FALSE]

(***************************************************************************)
(* Field type adapters.                                                    *)
(***************************************************************************)
\* DefaultFilter.MAP keys, in declaration order
MAP_keys == <<t_eq, t_ne, t_ge, t_le, t_gt, t_lt, t_LIKE, t_ILIKE>>

SUPPORT_METHOD == <<t_is_null>>

\* the peewee field classes of FIELD_MAP, in declaration order, with the adapter of each
FIELD_MAP ==
    << <<"CharField", "FilterCharField">>,
       <<"IntegerField", "FilterIntegerField">>,
       <<"BooleanField", "FilterBooleanField">>,
       <<"DateTimeField", "FilterDateTimeField">> >>

\* isinstance(field_py, cls): peewee's AutoField derives from IntegerField;
\* TextField derives from none of the mapped classes
isinstance(native, cls) ==
    \/ native = cls
    \/ native = "AutoField" /\ cls = "IntegerField"

NativeTypes == {"CharField", "IntegerField", "BooleanField", "DateTimeField",
                "AutoField", "TextField"}

get_filter_field(native) ==
    LET hits == {i \in DOMAIN FIELD_MAP : isinstance(native, FIELD_MAP[i][1])}
    IN  IF hits = {} THEN "FilterDefaultField" ELSE FIELD_MAP[SetMin(hits)][2]

\* FilterBooleanField.is_support_operator with "ILIKE" left out of its list
FilterBooleanField_unsupported_mutant == {t_ge, t_le, t_gt, t_lt, t_LIKE}

FilterBooleanField_unsupported == {t_ge, t_le, t_gt, t_lt, t_LIKE, t_ILIKE}

FilterIntegerField_unsupported == {t_LIKE, t_ILIKE}

FilterDateTimeField_unsupported == {t_LIKE, t_ILIKE}

is_support_operator(adapter, operator) ==
    CASE adapter = "FilterBooleanField" -> operator \notin FilterBooleanField_unsupported
      [] adapter = "FilterIntegerField" -> operator \notin FilterIntegerField_unsupported
      [] adapter = "FilterDateTimeField" -> operator \notin FilterDateTimeField_unsupported
      [] OTHER -> TRUE

\* the values of the model that datetime.strptime(value, "%Y-%m-%dT%H:%M:%S") accepts
FORMATS_accept == {"2020-01-02T03:04:05"}

parse_value(adapter, value) ==
    CASE adapter = "FilterBooleanField" -> BoolValue(value = "true")
      [] adapter = "FilterDateTimeField" ->
            IF value \in FORMATS_accept THEN DateTimeValue(value) ELSE StrValue(value)
      [] OTHER -> StrValue(value)

(***************************************************************************)
(* The queryable (a peewee select query) and BaseFilter.                   *)
(***************************************************************************)
\* a selected column: its name, its peewee class, and field.model._meta.primary_key.name
Field(name, type, model_pk) == [name |-> name, type |-> type, model_pk |-> model_pk]

NoField == Field(<<>>, "None", <<>>)

\* an ORDER BY entry: a field, field.desc(), or None
SortKey(kind, name) == [kind |-> kind, field |-> name]

\* a WHERE conjunct: operator token, field name, right-hand value
Predicate(operator, name, value) == [op |-> operator, field |-> name, value |-> value]

get_valid_field_name_list(q) == [i \in DOMAIN q.columns |-> q.columns[i].name]

\* the first selected column of that name; found = FALSE is the raise of line 99
get_field_py(q, field_name) ==
    LET hits == {i \in DOMAIN q.columns : q.columns[i].name = field_name}
    IN  IF hits = {} THEN [found |-> FALSE, field |-> NoField]
        ELSE [found |-> TRUE, field |-> q.columns[SetMin(hits)]]

\* peewee Query.where: the expression is AND-ed to the existing WHERE clause
where(q, predicate) == [q EXCEPT !.where = Append(@, predicate)]

\* peewee Query.order_by sets the ORDER BY clause to its arguments: "any
\* previously-specified values will be overwritten" (order_by_extend is the
\* method that adds to it)
order_by(q, key) == [q EXCEPT !.order = <<key>>]

(***************************************************************************)
(* OrderingFilter.                                                         *)
(***************************************************************************)
get_default_ordering_field(q) ==
    LET hits == {i \in DOMAIN q.columns : q.columns[i].model_pk = q.columns[i].name}
    IN  IF hits = {} THEN SortKey("None", <<>>)
        ELSE SortKey("asc", q.columns[SetMin(hits)].name)

\* str.split(sep) for a one-character separator
RECURSIVE split(_, _)
split(str, sep) ==
    LET at == {i \in DOMAIN str : str[i] = sep}
    IN  IF at = {} THEN <<str>>
        ELSE <<SubSeq(str, 1, SetMin(at) - 1)>>
                 \o split(SubSeq(str, SetMin(at) + 1, Len(str)), sep)

isspace(c) == c \in {" ", "\t", "\n", "\r"}

\* str.strip()
strip(str) ==
    LET keep == {i \in DOMAIN str : ~isspace(str[i])}
    IN  IF keep = {} THEN <<>> ELSE SubSeq(str, SetMin(keep), SetMax(keep))

term_valid(q, ordering_param) ==
    LET stripped == IF startswith(ordering_param, <<"-">>)
                    THEN Tail(ordering_param) ELSE ordering_param
    IN  stripped \in Range(get_valid_field_name_list(q))

filter_valid_fields(q, ordering_param_list) ==
    SelectSeq(ordering_param_list, LAMBDA p : term_valid(q, p))

\* the lookup made with the token as written, its "-" not removed
ordering_lookup_name_mutant(field_name) == field_name

\* the name looked up for one surviving token (lines 121-124)
ordering_lookup_name(field_name) ==
    IF startswith(field_name, <<"-">>) THEN Tail(field_name) ELSE field_name

\* one pass of the loop of lines 120-125, given the field the lookup returned
RECURSIVE ordering_loop(_, _, _)
ordering_step(q, names, i, look) ==
    IF ~look.found THEN [query |-> q, err |-> "FieldNotFound"]
    ELSE ordering_loop(
             order_by(q, SortKey(IF startswith(names[i], <<"-">>) THEN "desc" ELSE "asc",
                                 look.field.name)),
             names, i + 1)

\* the loop of lines 120-125 over the (already reversed) names, from index i
ordering_loop(q, names, i) ==
    IF i > Len(names) THEN [query |-> q, err |-> "none"]
    ELSE ordering_step(q, names, i, get_field_py(q, ordering_lookup_name(names[i])))

\* the ordering parameter: None, or a string
NoneParam == [none |-> TRUE, text |-> <<>>]
StrParam(text) == [none |-> FALSE, text |-> text]

\* "not ordering_param" in place of "ordering_param is None"
is_None_mutant(ordering_param) == ordering_param.none \/ ordering_param.text = <<>>

is_None(ordering_param) == ordering_param.none

ordering_tokens(text) ==
    LET parts == split(text, ",") IN [i \in DOMAIN parts |-> strip(parts[i])]

OrderingFilter_filter(q, ordering_param) ==
    IF is_None(ordering_param)
    THEN [query |-> order_by(q, get_default_ordering_field(q)), err |-> "none"]
    ELSE ordering_loop(q,
                       reversed(IF ordering_param.text # <<>>
                                THEN filter_valid_fields(
                                         q, ordering_tokens(ordering_param.text))
                                ELSE <<>>),
                       1)

(***************************************************************************)
(* DefaultFilter.                                                          *)
(***************************************************************************)
\* the alternation built at lines 164-172: the tokens joined by "|", with "\)"
\* written after the last one, so that the parenthesis belongs to that
\* alternative alone
operator_alternatives ==
    LET toks == MAP_keys \o SUPPORT_METHOD
    IN  [i \in DOMAIN toks |-> IF i = Len(toks) THEN toks[i] \o <<")">> ELSE toks[i]]

\* "." matches any character but a line break
Dot(c) == c # "\n"

\* how many characters ".*" can take from offset s
RECURSIVE DotRun(_, _)
DotRun(str, s) ==
    IF s < Len(str) /\ Dot(str[s + 1]) THEN 1 + DotRun(str, s + 1) ELSE 0

\* the first alternative (in written order) that matches at offset p, 0 if none
AlternativeAt(str, p) ==
    LET hits == {i \in DOMAIN operator_alternatives :
                    StartsWithAt(str, operator_alternatives[i], p)}
    IN  IF hits = {} THEN 0 ELSE SetMin(hits)

\* the lengths e of ".*" from offset s after which "\(" and an alternative match
MatchLengths(str, s) ==
    {e \in 0..DotRun(str, s) :
        /\ StartsWithAt(str, <<"(">>, s + e)
        /\ AlternativeAt(str, s + e + 1) # 0}

NoMatch == [matched |-> FALSE, key |-> <<>>, operator |-> <<>>]

\* re.search tries the starts from the left: the first offset from s on at which
\* the pattern matches, Len + 1 when there is none
RECURSIVE FirstStart(_, _)
FirstStart(str, s) ==
    IF s > Len(str) THEN Len(str) + 1
    ELSE IF MatchLengths(str, s) # {} THEN s
    ELSE FirstStart(str, s + 1)

\* the groups of the match that starts at offset s and gives ".*" e characters
MatchGroups(str, s, e) ==
    [matched |-> TRUE,
     key |-> SubSeq(str, s + 1, s + e),
     operator |-> operator_alternatives[AlternativeAt(str, s + e + 1)]]

\* the match from start s, ".*" taking the longest run it can (greedy)
MatchFrom(str, s) ==
    IF s > Len(str) THEN NoMatch ELSE MatchGroups(str, s, SetMax(MatchLengths(str, s)))

\* re.search: the leftmost start, and from it the longest ".*"
split_operator(param_key) == MatchFrom(param_key, FirstStart(param_key, 0))

Outcome(q, e) == [query |-> q, err |-> e]

\* lines 196-207: the operator checked against the adapter, then dispatched
filter_apply(q, field_py, filter_field, operator, value) ==
    IF ~is_support_operator(filter_field, operator) THEN Outcome(q, "none")
    ELSE IF operator \in Range(SUPPORT_METHOD)
    THEN Outcome(where(q, Predicate(operator, field_py.name, BoolValue(value = "true"))),
                 "none")
    ELSE IF operator \notin Range(MAP_keys) THEN Outcome(q, "KeyError")
    ELSE Outcome(where(q, Predicate(operator, field_py.name,
                                    parse_value(filter_field, value))),
                 "none")

\* lines 194-195: the field looked up and its adapter resolved
filter_lookup(q, look, operator, value) ==
    IF ~look.found THEN Outcome(q, "FieldNotFound")
    ELSE filter_apply(q, look.field, get_filter_field(look.field.type), operator, value)

\* lines 188-193: the parsed key checked, the field name validated
filter_parsed(q, operator_dict, value) ==
    IF ~operator_dict.matched THEN Outcome(q, "none")
    ELSE IF operator_dict.key \notin Range(get_valid_field_name_list(q))
    THEN Outcome(q, "none")
    ELSE filter_lookup(q, get_field_py(q, operator_dict.key), operator_dict.operator,
                       value)

\* one iteration of the loop of DefaultFilter.filter (lines 187-207)
filter_pair(q, param_key, value) == filter_parsed(q, split_operator(param_key), value)

\* what the loop records of one pair: the WHERE clause before and after it, and
\* what it raised
LogEntry(q, step) == [before |-> q.where, after |-> step.query.where, err |-> step.err]

Prepend(entry, rest) ==
    [query |-> rest.query, err |-> rest.err, log |-> <<entry>> \o rest.log]

\* the loop over query_params.items() from index i, given the outcome of pair i
RECURSIVE filter_loop(_, _, _)
filter_step(q, query_params, i, step) ==
    IF step.err # "none"
    THEN [query |-> step.query, err |-> step.err, log |-> <<LogEntry(q, step)>>]
    ELSE Prepend(LogEntry(q, step), filter_loop(step.query, query_params, i + 1))

filter_loop(q, query_params, i) ==
    IF i > Len(query_params) THEN [query |-> q, err |-> "none", log |-> <<>>]
    ELSE filter_step(q, query_params, i,
                     filter_pair(q, query_params[i].key, query_params[i].value))

DefaultFilter_filter(q, query_params) == filter_loop(q, query_params, 1)

(***************************************************************************)
(* Inputs.                                                                 *)
(***************************************************************************)
\* the key "<field>(<token>)"
Key(field, tok) == field \o <<"(">> \o tok \o <<")">>

\* the key "<field>(<token>", its closing parenthesis missing
OpenKey(field, tok) == field \o <<"(">> \o tok

Pair(key, value) == [key |-> key, value |-> value]

Columns ==
    << Field(s_id, "AutoField", s_id),
       Field(s_name, "CharField", s_id),
       Field(s_active, "BooleanField", s_id),
       Field(s_ts, "DateTimeField", s_id),
       Field(s_note, "TextField", s_id) >>

\* Model.select(), and Model.select(Model.name, Model.active).order_by(-Model.active)
Queryables ==
    { [columns |-> Columns, where |-> <<>>, order |-> <<>>],
      [columns |-> SubSeq(Columns, 2, 3), where |-> <<>>,
       order |-> <<SortKey("desc", s_active)>>] }

Pairs ==
    { Pair(Key(s_name, t_eq), "Alice"),
      Pair(Key(s_active, t_eq), "True"),
      Pair(Key(s_active, t_LIKE), "true"),
      Pair(Key(s_unknown_field, t_eq), "x"),
      Pair(Key(s_id, t_is_null), "true"),
      Pair(OpenKey(s_name, t_eq), "x"),
      Pair(Key(s_ts, t_le), "2020-01-02T03:04:05"),
      Pair(s_name, "x") }

\* the mappings of no, one and two pairs, in either iteration order
ParamsSet ==
    {<<>>} \cup {<<p>> : p \in Pairs}
           \cup {m \in {<<p, q>> : p \in Pairs, q \in Pairs} : m[1].key # m[2].key}

\* ",".join(tokens)
RECURSIVE Join(_)
Join(tokens) ==
    IF Len(tokens) = 0 THEN <<>>
    ELSE IF Len(tokens) = 1 THEN tokens[1]
    ELSE tokens[1] \o <<",">> \o Join(Tail(tokens))

OrderingParams ==
    { NoneParam,
      StrParam(<<>>),
      StrParam(<<" ">>),
      StrParam(s_bogus_field),
      StrParam(Join(<<s_name, <<"-">> \o s_id>>)),
      StrParam(<<"-">> \o s_id),
      StrParam(Join(<<<<" ">> \o s_name \o <<" ">>, s_bogus_field, <<"-">> \o s_active>>)),
      StrParam(Join(<<<<"-">> \o s_bogus_field, <<"-", "-">> \o s_id>>)) }

(***************************************************************************)
(* The filters applied to one queryable.                                   *)
(***************************************************************************)
Call(op, params, ordering, pre, log) ==
    [op |-> op, params |-> params, ordering |-> ordering, pre |-> pre, log |-> log]

NoQuery == [columns |-> <<>>, where |-> <<>>, order |-> <<>>]

NoCall == Call("none", <<>>, NoneParam, NoQuery, <<>>)

Init ==
    /\ query \in Queryables
    /\ err = "none"
    /\ last = NoCall
    /\ prev = NoCall
    /\ calls = 0
    /\ arg = <<>>
    /\ ret = NoMatch

\* the state after a call that left the outcome r
Returned(r, call) ==
    /\ query' = r.query
    /\ err' = r.err
    /\ last' = call

DefaultFilter(query_params) ==
    /\ calls < MaxCalls
    /\ Returned(DefaultFilter_filter(query, query_params),
                Call("DefaultFilter", query_params, NoneParam, query,
                     DefaultFilter_filter(query, query_params).log))
    /\ prev' = last
    /\ calls' = calls + 1
    /\ UNCHANGED <<arg, ret>>

OrderingFilter(ordering_param) ==
    /\ calls < MaxCalls
    /\ Returned(OrderingFilter_filter(query, ordering_param),
                Call("OrderingFilter", <<>>, ordering_param, query, <<>>))
    /\ prev' = last
    /\ calls' = calls + 1
    /\ UNCHANGED <<arg, ret>>

Next ==
    \/ \E query_params \in ParamsSet : DefaultFilter(query_params)
    \/ \E ordering_param \in OrderingParams : OrderingFilter(ordering_param)

Spec == Init /\ [][Next]_vars

(***************************************************************************)
(* split_operator alone, on one parameter key.                             *)
(***************************************************************************)
KeyFields == {s_age, s_name, <<>>, Key(s_age, t_eq)}

KeyTokens == Range(MAP_keys) \cup Range(SUPPORT_METHOD) \cup {t_BETWEEN, <<>>}

ParamKeys ==
    KeyFields
        \cup {Key(f, t) : f \in KeyFields, t \in KeyTokens}
        \cup {OpenKey(f, t) : f \in KeyFields, t \in KeyTokens}
        \cup {Key(f, t) \o <<"x">> : f \in KeyFields, t \in KeyTokens}
        \cup {OpenKey(f, t \o t_BETWEEN) \o <<")">> : f \in KeyFields, t \in KeyTokens}

InitParse ==
    /\ query = NoQuery
    /\ err = "none"
    /\ last = NoCall
    /\ prev = NoCall
    /\ calls = 0
    /\ arg \in ParamKeys
    /\ ret = NoMatch

SplitOperator ==
    /\ calls = 0
    /\ ret' = split_operator(arg)
    /\ calls' = 1
    /\ UNCHANGED <<query, err, last, prev, arg>>

NextParse == SplitOperator

SpecParse == InitParse /\ [][NextParse]_vars

(***************************************************************************)
(* get_filter_field and is_support_operator alone, on one field class and  *)
(* one operator string.                                                    *)
(***************************************************************************)
InitAdapter ==
    /\ query = NoQuery
    /\ err = "none"
    /\ last = NoCall
    /\ prev = NoCall
    /\ calls = 0
    /\ arg \in [type : NativeTypes,
                operator : KeyTokens \cup {t_is_null \o <<")">>}]
    /\ ret = FALSE

IsSupportOperator ==
    /\ calls = 0
    /\ ret' = is_support_operator(get_filter_field(arg.type), arg.operator)
    /\ calls' = 1
    /\ UNCHANGED <<query, err, last, prev, arg>>

NextAdapter == IsSupportOperator

SpecAdapter == InitAdapter /\ [][NextAdapter]_vars

(***************************************************************************)
(* What the specification states, written without the code's definitions:  *)
(* the key grammar, the operator-support table, the coercion, the          *)
(* surviving ordering tokens.                                              *)
(***************************************************************************)
ComparisonTokens == {t_eq, t_ne, t_ge, t_le, t_gt, t_lt, t_LIKE, t_ILIKE}

RegisteredTokens == ComparisonTokens \cup {t_is_null}

\* the key ends with "(<token>)"
EndsWithGroup(key, tok) ==
    /\ Len(key) >= Len(tok) + 2
    /\ SubSeq(key, Len(key) - Len(tok) - 1, Len(key)) = <<"(">> \o tok \o <<")">>

\* the key has the form <field_name>(<operator>), the group being its suffix
GrammarForm(key) == \E tok \in RegisteredTokens : EndsWithGroup(key, tok)

GrammarOperator(key) == CHOOSE tok \in RegisteredTokens : EndsWithGroup(key, tok)

GrammarField(key) == SubSeq(key, 1, Len(key) - Len(GrammarOperator(key)) - 2)

\* the adapter type of a field class
AdapterType(native) ==
    CASE native = "CharField" -> "text"
      [] native = "BooleanField" -> "boolean"
      [] native \in {"IntegerField", "AutoField"} -> "integer"
      [] native = "DateTimeField" -> "date-time"
      [] OTHER -> "default"

\* the operator-support table
Supports(type, operator) ==
    CASE type \in {"text", "default"} -> TRUE
      [] type = "boolean" -> operator \in {t_eq, t_ne, t_is_null}
      [] OTHER -> operator \notin {t_LIKE, t_ILIKE}

FieldNames(q) == {q.columns[i].name : i \in DOMAIN q.columns}

NativeOf(q, name) == (CHOOSE i \in DOMAIN q.columns : q.columns[i].name = name)

\* the coerced value of a comparison predicate
Coerced(type, native, value) ==
    CASE type = "boolean" -> BoolValue(value = "true")
      [] type \in {"text", "integer", "default"} -> StrValue(value)
      [] OTHER -> parse_value(get_filter_field(native), value)

\* a pair the Predicate Filter is to skip: its key is outside the grammar, or
\* names no selected field, or pairs an operator the field's type does not support
Skipped(q, pair) ==
    \/ ~GrammarForm(pair.key)
    \/ GrammarField(pair.key) \notin FieldNames(q)
    \/ ~Supports(AdapterType(q.columns[NativeOf(q, GrammarField(pair.key))].type),
                 GrammarOperator(pair.key))

\* a pair whose key parses to a supported comparison on a selected field
IsComparison(q, pair) ==
    LET d == split_operator(pair.key)
    IN  /\ d.matched
        /\ d.operator \in ComparisonTokens
        /\ d.key \in FieldNames(q)
        /\ Supports(AdapterType(q.columns[NativeOf(q, d.key)].type), d.operator)

ComparisonPredicate(q, pair) ==
    LET d == split_operator(pair.key)
        native == q.columns[NativeOf(q, d.key)].type
    IN  Predicate(d.operator, d.key, Coerced(AdapterType(native), native, pair.value))

\* a pair ("f(is_null)", v) on a selected field f
IsNullCheck(q, pair) ==
    \E f \in FieldNames(q) : pair.key = Key(f, t_is_null)

NullCheckPredicate(pair) ==
    Predicate(t_is_null, SubSeq(pair.key, 1, Len(pair.key) - Len(t_is_null) - 2),
              BoolValue(pair.value = "true"))

\* the predicates one application is to add, in mapping iteration order
RECURSIVE AcceptedPredicates(_, _)
AcceptedPredicates(q, params) ==
    IF params = <<>> THEN <<>>
    ELSE (IF IsNullCheck(q, Head(params)) THEN <<NullCheckPredicate(Head(params))>>
          ELSE IF IsComparison(q, Head(params))
          THEN <<ComparisonPredicate(q, Head(params))>>
          ELSE <<>>) \o AcceptedPredicates(q, Tail(params))

\* the ordering tokens that name a selected field, in written order
TokenName(tok) == IF tok # <<>> /\ Head(tok) = "-" THEN Tail(tok) ELSE tok

Survivors(q, text) ==
    SelectSeq(ordering_tokens(text), LAMBDA tok : TokenName(tok) \in FieldNames(q))

TokenSortKey(tok) ==
    SortKey(IF tok # <<>> /\ Head(tok) = "-" THEN "desc" ELSE "asc", TokenName(tok))

AfterDefaultFilter == last.op = "DefaultFilter"

AfterOrderingFilter == last.op = "OrderingFilter"

(***************************************************************************)
(* The claims.                                                             *)
(***************************************************************************)
\* C1: a pair whose key does not match the key grammar, or names a field that is
\* not selected, or pairs an operator the field's type adapter does not support,
\* adds no predicate and raises no error.
C1_SkippedPairAddsNothing ==
    AfterDefaultFilter =>
        \A k \in DOMAIN last.log :
            Skipped(last.pre, last.params[k]) =>
                /\ last.log[k].after = last.log[k].before
                /\ last.log[k].err = "none"

\* C2: every pair whose key parses to a comparison operator that is supported on
\* a selected field appends exactly one predicate, the operator applied to the
\* field and the adapter-coerced value, conjoined in mapping iteration order.
C2_ComparisonPairAppendsOnePredicate ==
    AfterDefaultFilter =>
        \A k \in DOMAIN last.params :
            IsComparison(last.pre, last.params[k]) =>
                /\ k \in DOMAIN last.log
                /\ last.log[k].err = "none"
                /\ last.log[k].after =
                       Append(last.log[k].before,
                              ComparisonPredicate(last.pre, last.params[k]))

\* C3: split_operator accepts a key if and only if it has the form
\* <field_name>(<operator>) with a registered token in a parenthesised suffix,
\* and then returns the text before the group and the token itself.
C3_SplitOperatorIsTheGrammar ==
    calls = 1 =>
        /\ ret.matched = GrammarForm(arg)
        /\ ret.matched => /\ ret.key = GrammarField(arg)
                          /\ ret.operator = GrammarOperator(arg)

\* C4: a pair ("f(is_null)", v) on a selected field f adds exactly one predicate,
\* the field's null-check with argument (v = "true"), and raises no error.
C4_IsNullPairAddsNullCheck ==
    AfterDefaultFilter =>
        \A k \in DOMAIN last.params :
            IsNullCheck(last.pre, last.params[k]) =>
                /\ k \in DOMAIN last.log
                /\ last.log[k].err = "none"
                /\ last.log[k].after =
                       Append(last.log[k].before, NullCheckPredicate(last.params[k]))

\* C5: for an ordering string, the resulting sort precedence is exactly the
\* surviving tokens in their written order, '-' meaning descending.
C5_OrderingIsSurvivorsInWrittenOrder ==
    (AfterOrderingFilter /\ ~last.ordering.none
        /\ Survivors(last.pre, last.ordering.text) # <<>>) =>
        LET tokens == Survivors(last.pre, last.ordering.text)
        IN  query.order = [i \in DOMAIN tokens |-> TokenSortKey(tokens[i])]

\* C6: with the ordering parameter None the filter applies exactly one sort key,
\* the identity field of the queryable's owning collection, ascending.
C6_NoneOrdersByIdentityField ==
    (AfterOrderingFilter /\ last.ordering.none) =>
        query.order = <<SortKey("asc", last.pre.columns[1].model_pk)>>

\* C7: an ordering string from which no token survives validation applies no
\* sort key: the queryable is as before the call, the identity default not applied.
C7_NoSurvivorKeepsOrdering ==
    (AfterOrderingFilter /\ ~last.ordering.none
        /\ Survivors(last.pre, last.ordering.text) = <<>>) =>
        /\ query = last.pre
        /\ err = "none"

C7_Witness ==
    /\ AfterOrderingFilter
    /\ last.ordering = StrParam(s_bogus_field)
    /\ last.pre.order = <<SortKey("desc", s_active)>>
    /\ query.order = last.pre.order

\* C8: the adapter resolved for a field class answers is_support_operator as the
\* table says: text and default support every operator, boolean only ==, != and
\* is_null, integer and date-time everything but LIKE and ILIKE.
C8_SupportTable ==
    (calls = 1 /\ arg.operator \in RegisteredTokens) =>
        ret = Supports(AdapterType(arg.type), arg.operator)

C8_Witness ==
    /\ calls = 1
    /\ arg = [type |-> "BooleanField", operator |-> t_LIKE]
    /\ ret = FALSE

\* C9: applying the Predicate Filter twice with the same mapping leaves every
\* accepted predicate present twice, in order, and the selected fields and the
\* ordering unchanged.
C9_TwiceAddsEveryPredicateTwice ==
    (AfterDefaultFilter /\ prev.op = "DefaultFilter" /\ last.params = prev.params) =>
        LET added == AcceptedPredicates(prev.pre, last.params)
        IN  /\ query.where = prev.pre.where \o added \o added
            /\ query.columns = prev.pre.columns
            /\ query.order = prev.pre.order

\* C10: get_field_py never raises "Field ... not found" from either filter: every
\* lookup is made with a name the validation found among the selected names.
C10_FieldLookupNeverFails == err # "FieldNotFound"

C10_Witness ==
    /\ prev.op = "DefaultFilter"
    /\ Len(last.pre.where) > 0
    /\ AfterOrderingFilter
    /\ last.ordering = StrParam(<<"-">> \o s_id)
    /\ query.order = <<SortKey("desc", s_id)>>

====
